---- MODULE Spec2Model ----
\* Model of RequestServer (request-server.go): the session loop Serve, the
\* packetWorker pool, and the openRequests registry.
EXTENDS Integers, Sequences, FiniteSets, Bags, TLC

\* ---------------------------------------------------------------- bounds
\* Largest worker count tried; sftpServerWorkerCount ranges over 1..MaxWorkers.
MaxWorkers == 2
\* Number of messages the peer sends before the stream ends or fails.
MaxPkts == 3

Workers == 1..MaxWorkers

\* Paths (and therefore handles) a packet can name.
Paths == {"a", "b"}

\* ---------------------------------------------------------------- values
NoErr == "nil"
NoReq == 0
NoPkt == [id |-> 0, kind |-> "none", arg |-> ""]
NoReply == [kind |-> "none", id |-> 0, arg |-> ""]

\* Packet kinds, by the case of the type switch that takes them.
OpenLike == {"open", "opendir"}
PacketShapes ==
    {[kind |-> "init", arg |-> ""], [kind |-> "other", arg |-> ""]}
    \cup [kind : OpenLike \cup {"close", "read", "stat"}, arg : Paths]

VARIABLES
    sftpServerWorkerCount, \* number of workers and capacity of pktChan
    pcServe,       \* position of Serve: recv, enqueue, close, wait, returned
    err,           \* Serve's outer err variable
    pkt,           \* the decoded packet Serve is about to enqueue
    nread,         \* messages read from the Transport so far
    decodeFailed,  \* makePacket has returned an error
    eos,           \* recvPacket has reported the end of the stream
    pktChan,       \* rs.pktChan: buffered channel contents
    chanClosed,    \* close(rs.pktChan) has run
    connClosed,    \* rs.conn.Close() has run
    openRequests,  \* rs.openRequests: handle -> *Request
    requests,      \* the live Request objects, by reference (the id of the packet
                   \* that allocated them)
    closed,        \* handles closeRequest has been called with
    nreg,          \* per path, how many times nextRequest has registered it
    wpc,           \* position of each packetWorker
    wpkt,          \* each worker's pkt
    handle,        \* each worker's handle
    request,       \* each worker's request (NoReq is nil)
    rpkt,          \* each worker's rpkt
    sent,          \* bag of replies written: the packet served and the id carried
    acks,          \* handle acknowledgements written, with the path they answer
    invoked,       \* per worker: handleRequest was called for its packet
    werr,          \* each worker's err, as handleRequest returned it
    panicked,      \* a goroutine panicked: the process is gone
    openRequestLock, \* rs.openRequestLock: who holds it for writing, who for reading
    lpc,           \* position of each goroutine inside a registry method
    lcall          \* the registry method each goroutine is in, and its argument

vars == <<sftpServerWorkerCount, pcServe, err, pkt, nread, decodeFailed, eos, pktChan,
          chanClosed, connClosed, openRequests, requests, closed, nreg, wpc, wpkt,
          handle, request, rpkt, sent, acks, invoked, werr, panicked,
          openRequestLock, lpc, lcall>>

serveVars == <<sftpServerWorkerCount, pcServe, err, pkt, nread, decodeFailed, eos,
               chanClosed>>
registryVars == <<openRequests, requests, closed, nreg>>
localVars == <<wpkt, handle, request, rpkt, invoked, werr>>
outVars == <<sent, acks>>
lockVars == <<openRequestLock, lpc, lcall>>

\* ---------------------------------------------------------------- registry
newRequest(path) == [Filepath |-> path, pkt |-> 0]

\* nextRequest that keys every Request by one and the same handle.
nextRequestOneKey(reg, ref, r) ==
    [openRequests |-> [h \in DOMAIN reg \cup {"a"} |-> IF h = "a" THEN ref ELSE reg[h]],
     handle |-> "a"]

\* nextRequest that leaves an entry already in the map as it is.
nextRequestKeepsFirst(reg, ref, r) ==
    [openRequests |-> [h \in DOMAIN reg \cup {r.Filepath} |->
                          IF h \in DOMAIN reg THEN reg[h] ELSE ref],
     handle |-> r.Filepath]

\* rs.openRequests[r.Filepath] = r; return r.Filepath
nextRequest(reg, ref, r) ==
    [openRequests |-> [h \in DOMAIN reg \cup {r.Filepath} |->
                          IF h = r.Filepath THEN ref ELSE reg[h]],
     handle |-> r.Filepath]

\* r, ok := rs.openRequests[handle]
getRequest(reg, h) ==
    IF h \in DOMAIN reg THEN [r |-> reg[h], ok |-> TRUE]
                        ELSE [r |-> NoReq, ok |-> FALSE]

\* closeRequest that finds the entry and leaves it in the map.
closeRequestKeeps(reg, h) == reg

\* delete(rs.openRequests, handle) if present
closeRequest(reg, h) ==
    IF h \in DOMAIN reg THEN [x \in DOMAIN reg \ {h} |-> reg[x]] ELSE reg

\* The Request objects still referenced by the registry or by a worker;
\* the others are garbage.
Collect(reqs, reg, held) ==
    [i \in DOMAIN reqs \cap ({reg[h] : h \in DOMAIN reg} \cup {held[w] : w \in Workers})
       |-> reqs[i]]

\* ---------------------------------------------------------------- replies
sshFxVersionPacket == [kind |-> "version", id |-> 0, arg |-> ""]
sshFxpHandlePacket(id, h) == [kind |-> "handle", id |-> id, arg |-> h]
statusFromError(p, e) == [kind |-> "status", id |-> p.id, arg |-> e]
sendError(p, e) == statusFromError(p, e)

\* The zero value of sync.RWMutex: no writer (0 is no goroutine), no readers.
Unlocked == [writer |-> 0, readers |-> {}]
NoCall == [w \in Workers |-> [op |-> "", h |-> ""]]

Init ==
    /\ sftpServerWorkerCount \in 1..MaxWorkers
    /\ pcServe = "recv"
    /\ err = NoErr
    /\ pkt = NoPkt
    /\ nread = 0
    /\ decodeFailed = FALSE
    /\ eos = FALSE
    /\ pktChan = <<>>
    /\ chanClosed = FALSE
    /\ connClosed = FALSE
    /\ openRequests = [h \in {} |-> NoReq]
    /\ requests = [i \in {} |-> newRequest("")]
    /\ closed = {}
    /\ nreg = [p \in Paths |-> 0]
    /\ wpc = [w \in Workers |-> IF w <= sftpServerWorkerCount THEN "range" ELSE "off"]
    /\ wpkt = [w \in Workers |-> NoPkt]
    /\ handle = [w \in Workers |-> ""]
    /\ request = [w \in Workers |-> NoReq]
    /\ rpkt = [w \in Workers |-> NoReply]
    /\ invoked = [w \in Workers |-> FALSE]
    /\ werr = [w \in Workers |-> NoErr]
    /\ sent = EmptyBag
    /\ acks = {}
    /\ panicked = FALSE
    /\ openRequestLock = Unlocked
    /\ lpc = [w \in Workers |-> "out"]
    /\ lcall = NoCall

\* ---------------------------------------------------------------- Serve
\* recvPacket and makePacket both succeed.
ServeRecvPacket ==
    /\ ~panicked /\ pcServe = "recv" /\ ~connClosed /\ nread < MaxPkts
    /\ \E s \in PacketShapes :
          pkt' = [id |-> nread + 1, kind |-> s.kind, arg |-> s.arg]
    /\ nread' = nread + 1
    /\ err' = NoErr
    /\ pcServe' = "enqueue"
    /\ UNCHANGED <<lockVars, sftpServerWorkerCount, decodeFailed, eos, pktChan, chanClosed, connClosed,
                   registryVars, wpc, localVars, outVars, panicked>>

\* recvPacket succeeds, makePacket fails: its error goes to the err that
\* `pkt, err :=` declares inside the loop body, and the loop breaks.
ServeRecvMalformed ==
    /\ ~panicked /\ pcServe = "recv" /\ ~connClosed /\ nread < MaxPkts
    /\ nread' = nread + 1
    /\ err' = NoErr
    /\ decodeFailed' = TRUE
    /\ pcServe' = "close"
    /\ UNCHANGED <<lockVars, sftpServerWorkerCount, eos, pkt, pktChan, chanClosed, connClosed,
                   registryVars, wpc, localVars, outVars, panicked>>

\* A reader that takes the end of the stream for success and drops its error.
ServeRecvErrorDropsEOF ==
    /\ ~panicked /\ pcServe = "recv"
    /\ \E e \in (IF connClosed THEN {"ECLOSED"} ELSE {"EOF", "EIO"}) :
          /\ err' = IF e = "EOF" THEN NoErr ELSE e
          /\ eos' = (e = "EOF")
    /\ pcServe' = "close"
    /\ UNCHANGED <<lockVars, sftpServerWorkerCount, pkt, nread, decodeFailed, pktChan, chanClosed,
                   connClosed, registryVars, wpc, localVars, outVars, panicked>>

\* recvPacket fails: end of stream, a read fault, or the connection closed
\* under it by a worker. The loop breaks with the error in err.
ServeRecvError ==
    /\ ~panicked /\ pcServe = "recv"
    /\ \E e \in (IF connClosed THEN {"ECLOSED"} ELSE {"EOF", "EIO"}) :
          /\ err' = e
          /\ eos' = (e = "EOF")
    /\ pcServe' = "close"
    /\ UNCHANGED <<lockVars, sftpServerWorkerCount, pkt, nread, decodeFailed, pktChan, chanClosed,
                   connClosed, registryVars, wpc, localVars, outVars, panicked>>

\* An enqueue that never blocks: a queue without a capacity.
ServeEnqueueNoBlock ==
    /\ ~panicked /\ pcServe = "enqueue"
    /\ pktChan' = Append(pktChan, pkt)
    /\ pkt' = NoPkt
    /\ pcServe' = "recv"
    /\ UNCHANGED <<lockVars, sftpServerWorkerCount, err, nread, decodeFailed, eos, chanClosed,
                   connClosed, registryVars, wpc, localVars, outVars, panicked>>

\* rs.pktChan <- pkt, blocking while the buffer is full.
ServeEnqueue ==
    /\ ~panicked /\ pcServe = "enqueue"
    /\ Len(pktChan) < sftpServerWorkerCount
    /\ pktChan' = Append(pktChan, pkt)
    /\ pkt' = NoPkt
    /\ pcServe' = "recv"
    /\ UNCHANGED <<lockVars, sftpServerWorkerCount, err, nread, decodeFailed, eos, chanClosed,
                   connClosed, registryVars, wpc, localVars, outVars, panicked>>

\* A shutdown that closes the Transport along with the queue.
ServeCloseChanClosesConn ==
    /\ ~panicked /\ pcServe = "close"
    /\ chanClosed' = TRUE
    /\ connClosed' = TRUE
    /\ pcServe' = "wait"
    /\ UNCHANGED <<lockVars, sftpServerWorkerCount, err, pkt, nread, decodeFailed, eos, pktChan,
                   registryVars, wpc, localVars, outVars, panicked>>

\* close(rs.pktChan)
ServeCloseChan ==
    /\ ~panicked /\ pcServe = "close"
    /\ chanClosed' = TRUE
    /\ pcServe' = "wait"
    /\ UNCHANGED <<lockVars, sftpServerWorkerCount, err, pkt, nread, decodeFailed, eos, pktChan,
                   connClosed, registryVars, wpc, localVars, outVars, panicked>>

\* A Serve that returns without waiting for the workers.
ServeReturnNoWait ==
    /\ ~panicked /\ pcServe = "wait"
    /\ pcServe' = "returned"
    /\ UNCHANGED <<lockVars, sftpServerWorkerCount, err, pkt, nread, decodeFailed, eos, pktChan,
                   chanClosed, connClosed, registryVars, wpc, localVars, outVars,
                   panicked>>

\* wg.Wait(); return err
ServeReturn ==
    /\ ~panicked /\ pcServe = "wait"
    /\ \A w \in 1..sftpServerWorkerCount : wpc[w] = "done"
    /\ pcServe' = "returned"
    /\ UNCHANGED <<lockVars, sftpServerWorkerCount, err, pkt, nread, decodeFailed, eos, pktChan,
                   chanClosed, connClosed, registryVars, wpc, localVars, outVars,
                   panicked>>

\* ---------------------------------------------------------------- packetWorker
\* for pkt := range rs.pktChan: a packet is there.
WorkerTake(w) ==
    /\ ~panicked /\ wpc[w] = "range" /\ pktChan # <<>>
    /\ wpkt' = [wpkt EXCEPT ![w] = Head(pktChan)]
    /\ pktChan' = Tail(pktChan)
    /\ wpc' = [wpc EXCEPT ![w] = "switch"]
    /\ UNCHANGED <<lockVars, serveVars, connClosed, registryVars, handle, request, rpkt,
                   invoked, werr, outVars, panicked>>

\* A worker that stops as soon as the queue is closed, packets left or not.
WorkerExitEarly(w) ==
    /\ ~panicked /\ wpc[w] = "range" /\ chanClosed
    /\ wpc' = [wpc EXCEPT ![w] = "done"]
    /\ UNCHANGED <<lockVars, serveVars, pktChan, connClosed, registryVars, localVars,
                   outVars, panicked>>

\* for pkt := range rs.pktChan: closed and drained; packetWorker returns nil.
WorkerExit(w) ==
    /\ ~panicked /\ wpc[w] = "range" /\ pktChan = <<>> /\ chanClosed
    /\ wpc' = [wpc EXCEPT ![w] = "done"]
    /\ UNCHANGED <<lockVars, serveVars, pktChan, connClosed, registryVars, localVars,
                   outVars, panicked>>

\* case *sshFxInitPacket
WorkerInit(w) ==
    /\ ~panicked /\ wpc[w] = "switch" /\ wpkt[w].kind = "init"
    /\ rpkt' = [rpkt EXCEPT ![w] = sshFxVersionPacket]
    /\ wpc' = [wpc EXCEPT ![w] = "send"]
    /\ UNCHANGED <<lockVars, serveVars, pktChan, connClosed, registryVars, wpkt, handle,
                   request, invoked, werr, outVars, panicked>>

\* handle = rs.nextRequest(newRequest(pkt.getPath()))
Register(w) ==
    LET res == nextRequest(openRequests, wpkt[w].id, newRequest(wpkt[w].arg)) IN
    /\ openRequests' = res.openRequests
    /\ requests' = Collect((wpkt[w].id :> newRequest(wpkt[w].arg)) @@ requests,
                           res.openRequests, request)
    /\ nreg' = [nreg EXCEPT ![wpkt[w].arg] = @ + 1]
    /\ handle' = [handle EXCEPT ![w] = res.handle]

\* An open case without its `continue`: it falls through to the lookup and
\* the handler call.
WorkerOpenFallsThrough(w) ==
    /\ ~panicked /\ wpc[w] = "switch" /\ wpkt[w].kind \in OpenLike
    /\ Register(w)
    /\ wpc' = [wpc EXCEPT ![w] = "lookup"]
    /\ UNCHANGED <<lockVars, serveVars, pktChan, connClosed, closed, wpkt, request, rpkt,
                   invoked, werr, outVars, panicked>>

\* case *sshFxpOpenPacket, case *sshFxpOpendirPacket
WorkerOpen(w) ==
    /\ ~panicked /\ wpc[w] = "switch" /\ wpkt[w].kind \in OpenLike
    /\ Register(w)
    /\ rpkt' = [rpkt EXCEPT ![w] = sshFxpHandlePacket(wpkt[w].id, handle'[w])]
    /\ wpc' = [wpc EXCEPT ![w] = "send"]
    /\ UNCHANGED <<lockVars, serveVars, pktChan, connClosed, closed, wpkt, request, invoked, werr,
                   outVars, panicked>>

\* case *sshFxpClosePacket
WorkerClose(w) ==
    /\ ~panicked /\ wpc[w] = "switch" /\ wpkt[w].kind = "close"
    /\ handle' = [handle EXCEPT ![w] = wpkt[w].arg]
    /\ openRequests' = closeRequest(openRequests, wpkt[w].arg)
    /\ requests' = Collect(requests, openRequests', request)
    /\ closed' = closed \cup {wpkt[w].arg}
    /\ rpkt' = [rpkt EXCEPT ![w] = sendError(wpkt[w], "OK")]
    /\ wpc' = [wpc EXCEPT ![w] = "send"]
    /\ UNCHANGED <<lockVars, serveVars, pktChan, connClosed, nreg, wpkt, request, invoked, werr,
                   outVars, panicked>>

\* request, ok := rs.getRequest(handle); if !ok { rpkt = statusFromError(pkt, EBADF) }
Lookup(w, h) ==
    LET got == getRequest(openRequests, h) IN
    /\ handle' = [handle EXCEPT ![w] = h]
    /\ request' = [request EXCEPT ![w] = got.r]
    /\ rpkt' = [rpkt EXCEPT ![w] =
                   IF got.ok THEN NoReply ELSE statusFromError(wpkt[w], "EBADF")]
    /\ wpc' = [wpc EXCEPT ![w] = "populate"]

\* case hasHandle, then the lookup
WorkerHasHandle(w) ==
    /\ ~panicked /\ wpc[w] = "switch" /\ wpkt[w].kind = "read"
    /\ Lookup(w, wpkt[w].arg)
    /\ UNCHANGED <<lockVars, serveVars, pktChan, connClosed, registryVars, wpkt, invoked, werr,
                   outVars, panicked>>

\* case hasPath
WorkerHasPath(w) ==
    /\ ~panicked /\ wpc[w] = "switch" /\ wpkt[w].kind = "stat"
    /\ Register(w)
    /\ wpc' = [wpc EXCEPT ![w] = "lookup"]
    /\ UNCHANGED <<lockVars, serveVars, pktChan, connClosed, closed, wpkt, request, rpkt,
                   invoked, werr, outVars, panicked>>

\* the lookup that follows case hasPath
WorkerLookup(w) ==
    /\ ~panicked /\ wpc[w] = "lookup"
    /\ Lookup(w, handle[w])
    /\ UNCHANGED <<lockVars, serveVars, pktChan, connClosed, registryVars, wpkt, invoked, werr,
                   outVars, panicked>>

\* no case of the switch matches: handle stays "", then the lookup
WorkerOther(w) ==
    /\ ~panicked /\ wpc[w] = "switch" /\ wpkt[w].kind = "other"
    /\ Lookup(w, "")
    /\ UNCHANGED <<lockVars, serveVars, pktChan, connClosed, registryVars, wpkt, invoked, werr,
                   outVars, panicked>>

\* request.populate(pkt) on a Request that was found
WorkerPopulate(w) ==
    /\ ~panicked /\ wpc[w] = "populate" /\ request[w] # NoReq
    /\ requests' = [requests EXCEPT ![request[w]].pkt = wpkt[w].id]
    /\ wpc' = [wpc EXCEPT ![w] = "handle"]
    /\ UNCHANGED <<lockVars, serveVars, pktChan, connClosed, openRequests, closed, nreg,
                   localVars, outVars, panicked>>

\* request.populate(pkt) with request == nil: the write through the nil
\* pointer panics, and nothing recovers it.
WorkerPopulateNil(w) ==
    /\ ~panicked /\ wpc[w] = "populate" /\ request[w] = NoReq
    /\ panicked' = TRUE
    /\ UNCHANGED <<lockVars, serveVars, pktChan, connClosed, registryVars, wpc, localVars,
                   outVars>>

\* What request.handleRequest(rs.Handlers) returns. It sees only the Request,
\* so a reply it builds is for the packet the Request was last populated with.
handleRequest(r, out) ==
    IF out = "ok" THEN [rpkt |-> [kind |-> "data", id |-> r.pkt, arg |-> ""], err |-> NoErr]
                  ELSE [rpkt |-> NoReply, err |-> out]

\* A worker that returns the handler's error instead of replying with it.
WorkerHandleReturnsErr(w) ==
    /\ ~panicked /\ wpc[w] = "handle"
    /\ invoked' = [invoked EXCEPT ![w] = TRUE]
    /\ \E out \in {"ok", "EFAIL"} :
          LET res == handleRequest(requests[request[w]], out) IN
          /\ werr' = [werr EXCEPT ![w] = res.err]
          /\ rpkt' = [rpkt EXCEPT ![w] = res.rpkt]
          /\ wpc' = [wpc EXCEPT ![w] = IF res.err # NoErr THEN "failed" ELSE "send"]
    /\ UNCHANGED <<lockVars, serveVars, pktChan, connClosed, registryVars, wpkt, handle,
                   request, outVars, panicked>>

\* rpkt, err = request.handleRequest(rs.Handlers);
\* if err != nil { rpkt = statusFromError(pkt, err) }
WorkerHandle(w) ==
    /\ ~panicked /\ wpc[w] = "handle"
    /\ invoked' = [invoked EXCEPT ![w] = TRUE]
    /\ \E out \in {"ok", "EFAIL"} :
          LET res == handleRequest(requests[request[w]], out) IN
          /\ werr' = [werr EXCEPT ![w] = res.err]
          /\ rpkt' = [rpkt EXCEPT ![w] =
                         IF res.err # NoErr THEN statusFromError(wpkt[w], res.err)
                                            ELSE res.rpkt]
    /\ wpc' = [wpc EXCEPT ![w] = "send"]
    /\ UNCHANGED <<lockVars, serveVars, pktChan, connClosed, registryVars, wpkt, handle,
                   request, outVars, panicked>>

\* The locals of one loop iteration go out of scope.
Forget(w) ==
    /\ wpkt' = [wpkt EXCEPT ![w] = NoPkt]
    /\ handle' = [handle EXCEPT ![w] = ""]
    /\ request' = [request EXCEPT ![w] = NoReq]
    /\ rpkt' = [rpkt EXCEPT ![w] = NoReply]
    /\ invoked' = [invoked EXCEPT ![w] = FALSE]
    /\ werr' = [werr EXCEPT ![w] = NoErr]
    /\ requests' = Collect(requests, openRequests, request')

\* rs.sendPacket(rpkt) succeeds; the loop goes on to the next packet.
WorkerSendOk(w) ==
    /\ ~panicked /\ wpc[w] = "send" /\ ~connClosed
    /\ sent' = sent (+) SetToBag({[for |-> wpkt[w].id, id |-> rpkt[w].id]})
    /\ acks' = IF rpkt[w].kind = "handle"
               THEN acks \cup {[id |-> rpkt[w].id, path |-> wpkt[w].arg,
                                handle |-> rpkt[w].arg]}
               ELSE acks
    /\ wpc' = [wpc EXCEPT ![w] = "range"]
    /\ Forget(w)
    /\ UNCHANGED <<lockVars, serveVars, pktChan, connClosed, openRequests, closed, nreg,
                   panicked>>

\* rs.sendPacket(rpkt) fails; packetWorker returns the error.
WorkerSendFail(w) ==
    /\ ~panicked /\ wpc[w] = "send"
    /\ wpc' = [wpc EXCEPT ![w] = "failed"]
    /\ Forget(w)
    /\ UNCHANGED <<lockVars, serveVars, pktChan, connClosed, openRequests, closed, nreg,
                   outVars, panicked>>

\* A failed worker that closes the packet queue as well as the connection.
WorkerConnCloseClosesChan(w) ==
    /\ ~panicked /\ wpc[w] = "failed"
    /\ connClosed' = TRUE
    /\ chanClosed' = TRUE
    /\ wpc' = [wpc EXCEPT ![w] = "done"]
    /\ UNCHANGED <<lockVars, sftpServerWorkerCount, pcServe, err, pkt, nread, decodeFailed, eos,
                   pktChan, registryVars, localVars, outVars, panicked>>

\* if err := rs.packetWorker(); err != nil { rs.conn.Close() }; wg.Done()
WorkerConnClose(w) ==
    /\ ~panicked /\ wpc[w] = "failed"
    /\ connClosed' = TRUE
    /\ wpc' = [wpc EXCEPT ![w] = "done"]
    /\ UNCHANGED <<lockVars, serveVars, pktChan, registryVars, localVars, outVars, panicked>>

Next ==
    \/ ServeRecvPacket
    \/ ServeRecvMalformed
    \/ ServeRecvError
    \/ ServeEnqueue
    \/ ServeCloseChan
    \/ ServeReturn
    \/ \E w \in Workers : WorkerTake(w)
    \/ \E w \in Workers : WorkerExit(w)
    \/ \E w \in Workers : WorkerInit(w)
    \/ \E w \in Workers : WorkerOpen(w)
    \/ \E w \in Workers : WorkerClose(w)
    \/ \E w \in Workers : WorkerHasHandle(w)
    \/ \E w \in Workers : WorkerHasPath(w)
    \/ \E w \in Workers : WorkerLookup(w)
    \/ \E w \in Workers : WorkerOther(w)
    \/ \E w \in Workers : WorkerPopulate(w)
    \/ \E w \in Workers : WorkerPopulateNil(w)
    \/ \E w \in Workers : WorkerHandle(w)
    \/ \E w \in Workers : WorkerSendOk(w)
    \/ \E w \in Workers : WorkerSendFail(w)
    \/ \E w \in Workers : WorkerConnClose(w)

Spec == Init /\ [][Next]_vars

\* ---------------------------------------------------------------- registry lock
\* The three registry methods at the grain of their lock calls: each goroutine
\* calls a method, takes rs.openRequestLock, runs the body, and the deferred
\* Unlock releases it on return.
Methods == {"nextRequest", "getRequest", "closeRequest"}
\* References for the Requests handed to nextRequest.
Refs == 1..(MaxPkts + MaxWorkers)

\* sync.RWMutex.Lock: waits until nobody holds the lock, then holds it for writing.
Lock(l, w) == [writer |-> w, readers |-> {}]
CanLock(l) == l.writer = 0 /\ l.readers = {}
\* sync.RWMutex.Unlock
Unlock(l, w) == [l EXCEPT !.writer = 0]

\* A goroutine of the worker pool calls a registry method.
RegistryCall(w) ==
    /\ wpc[w] # "off" /\ lpc[w] = "out"
    /\ \E op \in Methods, h \in Paths :
          lcall' = [lcall EXCEPT ![w] = [op |-> op, h |-> h]]
    /\ lpc' = [lpc EXCEPT ![w] = "Lock"]
    /\ handle' = [handle EXCEPT ![w] = ""]
    /\ request' = [request EXCEPT ![w] = NoReq]
    /\ requests' = Collect(requests, openRequests, request')
    /\ UNCHANGED <<serveVars, pktChan, connClosed, openRequests, closed, nreg, wpc, wpkt,
                   rpkt, invoked, werr, outVars, panicked, openRequestLock>>

\* rs.openRequestLock.Lock(), the first statement of the method called
RegistryLock(w, op) ==
    /\ lpc[w] = "Lock" /\ lcall[w].op = op
    /\ CanLock(openRequestLock)
    /\ openRequestLock' = Lock(openRequestLock, w)
    /\ lpc' = [lpc EXCEPT ![w] = "body"]
    /\ UNCHANGED <<serveVars, pktChan, connClosed, registryVars, wpc, localVars, outVars,
                   panicked, lcall>>

\* defer rs.openRequestLock.Unlock(), run as the method returns
RegistryUnlock(w, op) ==
    /\ lpc[w] = "Unlock" /\ lcall[w].op = op
    /\ openRequestLock' = Unlock(openRequestLock, w)
    /\ lpc' = [lpc EXCEPT ![w] = "out"]
    /\ lcall' = [lcall EXCEPT ![w] = [op |-> "", h |-> ""]]
    /\ UNCHANGED <<serveVars, pktChan, connClosed, registryVars, wpc, localVars, outVars,
                   panicked>>

nextRequestLock(w) == RegistryLock(w, "nextRequest")
nextRequestBody(w) ==
    /\ lpc[w] = "body" /\ lcall[w].op = "nextRequest"
    /\ LET free == Refs \ DOMAIN requests
           ref == CHOOSE i \in free : \A j \in free : i <= j
           r == newRequest(lcall[w].h)
           reg == nextRequest(openRequests, ref, r)
       IN /\ free # {}
          /\ openRequests' = reg.openRequests
          /\ handle' = [handle EXCEPT ![w] = reg.handle]
          /\ requests' = Collect([i \in DOMAIN requests \cup {ref} |->
                                     IF i = ref THEN r ELSE requests[i]],
                                 reg.openRequests, request)
    /\ lpc' = [lpc EXCEPT ![w] = "Unlock"]
    /\ UNCHANGED <<serveVars, pktChan, connClosed, closed, nreg, wpc, wpkt, request, rpkt,
                   invoked, werr, outVars, panicked, openRequestLock, lcall>>
nextRequestUnlock(w) == RegistryUnlock(w, "nextRequest")

getRequestLock(w) == RegistryLock(w, "getRequest")
getRequestBody(w) ==
    /\ lpc[w] = "body" /\ lcall[w].op = "getRequest"
    /\ request' = [request EXCEPT ![w] = getRequest(openRequests, lcall[w].h).r]
    /\ lpc' = [lpc EXCEPT ![w] = "Unlock"]
    /\ UNCHANGED <<serveVars, pktChan, connClosed, registryVars, wpc, wpkt, handle, rpkt,
                   invoked, werr, outVars, panicked, openRequestLock, lcall>>
getRequestUnlock(w) == RegistryUnlock(w, "getRequest")

closeRequestLock(w) == RegistryLock(w, "closeRequest")
closeRequestBody(w) ==
    /\ lpc[w] = "body" /\ lcall[w].op = "closeRequest"
    /\ openRequests' = closeRequest(openRequests, lcall[w].h)
    /\ requests' = Collect(requests, openRequests', request)
    /\ lpc' = [lpc EXCEPT ![w] = "Unlock"]
    /\ UNCHANGED <<serveVars, pktChan, connClosed, closed, nreg, wpc, localVars, outVars,
                   panicked, openRequestLock, lcall>>
closeRequestUnlock(w) == RegistryUnlock(w, "closeRequest")

LockNext ==
    \/ \E w \in Workers : RegistryCall(w)
    \/ \E w \in Workers : nextRequestLock(w)
    \/ \E w \in Workers : nextRequestBody(w)
    \/ \E w \in Workers : nextRequestUnlock(w)
    \/ \E w \in Workers : getRequestLock(w)
    \/ \E w \in Workers : getRequestBody(w)
    \/ \E w \in Workers : getRequestUnlock(w)
    \/ \E w \in Workers : closeRequestLock(w)
    \/ \E w \in Workers : closeRequestBody(w)
    \/ \E w \in Workers : closeRequestUnlock(w)

LockSpec == Init /\ [][LockNext]_vars

\* ---------------------------------------------------------------- properties
\* A reply write has failed.
WriteFailed == connClosed \/ \E w \in Workers : wpc[w] = "failed"
\* Worker w holds a packet it has taken and not yet answered.
Holding(w) == wpkt[w] # NoPkt
\* Worker w leaves position p in this step.
Leaves(w, p) == wpc[w] = p /\ wpc'[w] # p
\* Packets decoded so far.
Decoded == IF decodeFailed THEN nread - 1 ELSE nread

\* C1: while no Transport write has failed, every packet taken from the queue
\* gets exactly one reply, and every reply that carries a request identifier
\* carries that of the packet it answers: no reply is missing, doubled or
\* mislabelled, and no taken packet is abandoned.
C1_OneReplyPerPacket ==
    ~WriteFailed =>
        /\ \A s \in BagToSet(sent) :
              /\ CopiesIn(s, sent) = 1
              /\ s.id # 0 => s.id = s.for
        /\ \A s, t \in BagToSet(sent) : s.for = t.for => s = t
        /\ BagCardinality(sent) + Cardinality({w \in Workers : Holding(w)})
              + Len(pktChan) + (IF pkt # NoPkt THEN 1 ELSE 0) = Decoded
        /\ (\E w \in Workers : Holding(w)) => ~panicked

\* C2: a handle-bearing packet whose lookup found nothing is answered with the
\* EBADF status, without a handler call, and the worker goes on.
C2_UnknownHandleEBADF ==
    [][\A w \in Workers :
         (wpkt[w].kind = "read" /\ wpc[w] = "populate" /\ request[w] = NoReq)
         => /\ ~panicked'
            /\ wpc'[w] # wpc[w]
                 => /\ wpc'[w] = "send"
                    /\ rpkt'[w] = statusFromError(wpkt[w], "EBADF")
                    /\ ~invoked'[w]]_vars

\* C3: processing a close packet leaves its handle not found, and the handle
\* stays not found until a register for it; a close of an absent handle leaves
\* the registry as it was; either way the reply is the success status with the
\* packet's id, the Transport stays open, and once the reply is written the
\* worker is back at the queue.
C3_CloseReleases ==
    [][/\ \A w \in Workers :
            (Leaves(w, "switch") /\ wpkt[w].kind = "close")
            => /\ ~getRequest(openRequests', wpkt[w].arg).ok
               /\ ~getRequest(openRequests, wpkt[w].arg).ok => openRequests' = openRequests
               /\ \A h \in DOMAIN openRequests' : openRequests'[h] = openRequests[h]
               /\ DOMAIN openRequests \ DOMAIN openRequests' \subseteq {wpkt[w].arg}
               /\ rpkt'[w] = [kind |-> "status", id |-> wpkt[w].id, arg |-> "OK"]
               /\ wpc'[w] = "send"
               /\ connClosed' = connClosed /\ ~panicked'
       /\ \A h \in DOMAIN openRequests' \ DOMAIN openRequests :
            \E w \in Workers : /\ Leaves(w, "switch")
                               /\ wpkt[w].kind \in OpenLike \cup {"stat"}
                               /\ wpkt[w].arg = h
       /\ \A w \in Workers :
            (Leaves(w, "send") /\ wpkt[w].kind = "close" /\ ~connClosed /\ wpc'[w] # "failed")
            => /\ wpc'[w] = "range"
               /\ sent' = sent (+) SetToBag({[for |-> wpkt[w].id, id |-> wpkt[w].id]})
               /\ connClosed' = connClosed]_vars

\* C3 witness: a worker is about to answer, with the success status, the close
\* of a handle that an earlier close had already released.
C3_Witness ==
    \E w \in Workers :
        /\ wpc[w] = "send" /\ wpkt[w].kind = "close" /\ rpkt[w].arg = "OK"
        /\ nreg[wpkt[w].arg] = 1
        /\ wpkt[w].arg \notin DOMAIN openRequests
        /\ \E s \in BagToSet(sent) : s.for < wpkt[w].id /\ s.for > 1
        /\ ~connClosed

\* C4: handle acknowledgements written for open-like packets with distinct
\* paths carry distinct handles, and once its acknowledgement is written a
\* handle whose path was registered once and never closed looks up to the
\* Request its own open created, with that path.
C4_DistinctHandles ==
    /\ \A a, b \in acks : a.path # b.path => a.handle # b.handle
    /\ \A a \in acks :
          (a.path \notin closed /\ nreg[a.path] = 1)
          => LET got == getRequest(openRequests, a.handle) IN
             /\ got.ok
             /\ got.r = a.id
             /\ requests[got.r].Filepath = a.path

\* C4 witness: two workers, two acknowledged opens of different paths, both
\* handles open.
C4_Witness ==
    /\ sftpServerWorkerCount = 2
    /\ \E a, b \in acks : a.path # b.path /\ a.handle # b.handle
    /\ closed = {}
    /\ \A p \in Paths : nreg[p] = 1
    /\ DOMAIN openRequests = Paths

\* C5: when handleRequest returns an error the worker's reply is the status
\* built from that error for its own packet; the worker goes on to write it,
\* nothing closes the Transport, and once the reply is written the worker is
\* back at the queue for the next packet.
C5_HandlerErrorIsStatus ==
    [][\A w \in Workers :
         /\ (Leaves(w, "handle") /\ werr'[w] # NoErr)
            => /\ rpkt'[w] = [kind |-> "status", id |-> wpkt[w].id, arg |-> werr'[w]]
               /\ wpc'[w] = "send"
               /\ connClosed' = connClosed /\ ~panicked'
         /\ (Leaves(w, "send") /\ werr[w] # NoErr /\ ~connClosed /\ wpc'[w] # "failed")
            => /\ wpc'[w] = "range"
               /\ sent' = sent (+) SetToBag({[for |-> wpkt[w].id, id |-> wpkt[w].id]})
               /\ connClosed' = connClosed]_vars

\* C5 witness: a handler error has been turned into a status reply, and the
\* session is alive with a later packet waiting in the queue.
C5_Witness ==
    \E w \in Workers :
        /\ wpc[w] = "send" /\ werr[w] = "EFAIL" /\ rpkt[w].kind = "status"
        /\ ~connClosed /\ ~panicked /\ pcServe = "recv"
        /\ pktChan # <<>>

\* Every started worker has left packetWorker.
AllWorkersDone == \A w \in 1..sftpServerWorkerCount : wpc[w] = "done"
\* The session has shut down in order: queue closed, workers gone, Serve back.
ShutDown == chanClosed /\ AllWorkersDone /\ pcServe = "returned"

\* C6: once a Transport read has failed, the session does not stop short of
\* the orderly shutdown: either something can still run, or the queue is
\* closed, every worker has exited and Serve has returned a non-nil error.
C6_ReadFailureShutsDown ==
    (err # NoErr) => (ENABLED Next \/ (ShutDown /\ err # NoErr))

\* C7 as claimed: after a clean end of the stream, with no write failure and no
\* decode failure, Serve returns nil.
C7_CleanEndReturnsNil ==
    (pcServe = "returned" /\ eos /\ ~WriteFailed /\ ~decodeFailed) => err = NoErr

\* C7 as amended: after a clean end of the stream Serve returns the
\* end-of-stream error recvPacket reported, which is not nil.
C7_CleanEndReturnsEOF ==
    (pcServe = "returned" /\ eos) => (err = "EOF" /\ err # NoErr)

\* C7 witness: Serve has returned after a clean end of a stream that carried
\* packets, all answered, with no write or decode failure.
C7_Witness ==
    /\ pcServe = "returned" /\ eos /\ ~WriteFailed /\ ~decodeFailed
    /\ BagCardinality(sent) = nread /\ nread > 0

\* C8: after a decode failure the reader has stopped reading, the failed
\* message is not enqueued, and the error Serve returns is not nil.
C8_DecodeErrorReturned ==
    decodeFailed =>
        /\ pcServe \in {"close", "wait", "returned"}
        /\ pkt = NoPkt
        /\ BagCardinality(sent) + Cardinality({w \in Workers : Holding(w)})
              + Len(pktChan) <= nread - 1
        /\ pcServe = "returned" => err # NoErr

\* C9: once a reply write has failed, the session does not stop short of Serve
\* returning a non-nil error: either something can still run, or Serve has
\* returned one. Runs with a panic or a decode failure are left out, so that
\* only the write failure itself can break it.
C9_WriteFailureShutsDown ==
    (WriteFailed /\ ~panicked /\ ~decodeFailed)
    => (ENABLED Next \/ (pcServe = "returned" /\ err # NoErr))

\* C10: when Serve returns, and ever after, the queue is closed and every
\* worker has exited; after the return no reply is written, no worker moves
\* and the registry does not change.
C10_ReturnAfterWorkers ==
    [][pcServe' = "returned"
       => /\ chanClosed' /\ \A w \in 1..sftpServerWorkerCount : wpc'[w] = "done"
          /\ pcServe = "returned" => UNCHANGED <<sent, openRequests, requests, wpc>>]_vars

\* C10 witness: Serve has returned from a session of two workers that wrote
\* replies.
C10_Witness ==
    /\ pcServe = "returned" /\ sftpServerWorkerCount = 2
    /\ BagCardinality(sent) >= 2

\* C11: whenever a worker is about to call handleRequest, the Request it holds
\* carries the context populated from that worker's own packet, and the reply
\* the call produced carries the identifier of that packet.
C11_HandlerSeesOwnPacket ==
    \A w \in Workers :
        /\ wpc[w] = "handle" => requests[request[w]].pkt = wpkt[w].id
        /\ (wpc[w] = "send" /\ invoked[w]) => rpkt[w].id = wpkt[w].id

\* C12: an entry enters the Registry, or is rebound, only in the step of an
\* open-like packet for that path; and when nothing has been opened that is not
\* closed and every packet has been processed, the Registry is empty.
C12_EntriesFromOpens ==
    [][/\ \A h \in DOMAIN openRequests' :
            (h \notin DOMAIN openRequests \/ openRequests'[h] # openRequests[h])
            => \E w \in Workers : /\ Leaves(w, "switch")
                                  /\ wpkt[w].kind \in OpenLike
                                  /\ wpkt[w].arg = h
       /\ (/\ \A p \in Paths : nreg'[p] > 0 => p \in closed'
           /\ pktChan' = <<>> /\ pkt' = NoPkt
           /\ \A w \in Workers : ~Holding(w)')
          => DOMAIN openRequests' = {}]_vars

\* C13: the lookup that follows a path-bearing packet's own register finds the
\* Request that packet registered.
C13_LookupFindsOwnRegister ==
    \A w \in Workers :
        (wpkt[w].kind = "stat" /\ wpc[w] \in {"populate", "handle", "send"})
        => request[w] = wpkt[w].id

\* C14: the handle an open-like packet gets is its path, so acknowledgements
\* for the same path carry the same handle; the register binds the one entry
\* for that handle to the Request of the packet that registers now, leaving the
\* other entries alone; and one close of the handle leaves it not found,
\* however many opens it had.
C14_HandleIsPath ==
    [][/\ \A a, b \in acks' : a.path = b.path => a.handle = b.handle
       /\ \A w \in Workers :
            (Leaves(w, "switch") /\ wpkt[w].kind \in OpenLike)
            => /\ rpkt'[w] = sshFxpHandlePacket(wpkt[w].id, wpkt[w].arg)
               /\ DOMAIN openRequests' = DOMAIN openRequests \cup {wpkt[w].arg}
               /\ openRequests'[wpkt[w].arg] = wpkt[w].id
               /\ requests'[wpkt[w].id].Filepath = wpkt[w].arg
               /\ \A h \in DOMAIN openRequests \ {wpkt[w].arg} :
                     openRequests'[h] = openRequests[h]
       /\ \A w \in Workers :
            (Leaves(w, "switch") /\ wpkt[w].kind = "close" /\ nreg[wpkt[w].arg] >= 2)
            => ~getRequest(openRequests', wpkt[w].arg).ok]_vars

\* C14 witness: two opens of one path were acknowledged with one handle, and
\* after a single close the handle is not found.
C14_Witness ==
    \E a, b \in acks :
        /\ a.id # b.id /\ a.path = b.path /\ a.handle = b.handle
        /\ nreg[a.path] = 2 /\ a.path \in closed
        /\ ~getRequest(openRequests, a.handle).ok
        /\ \E w \in Workers : wpc[w] = "send" /\ wpkt[w].kind = "close"

InFlight ==
    Len(pktChan) + (IF pkt # NoPkt THEN 1 ELSE 0)
    + Cardinality({w \in Workers : Holding(w)})

\* C16 as claimed: the packets in flight never outnumber the queue capacity.
C16_InFlightWithinCapacity == InFlight <= sftpServerWorkerCount

\* C16 as amended: the queue never holds more than its capacity, and the
\* packets in flight number at most twice the capacity plus one (a full queue,
\* one packet per worker, one packet the reader is waiting to enqueue).
C16_InFlightBound ==
    /\ Len(pktChan) <= sftpServerWorkerCount
    /\ Cardinality({w \in Workers : Holding(w)}) <= sftpServerWorkerCount
    /\ InFlight <= 2 * sftpServerWorkerCount + 1

\* C16 witness: with capacity 1 three packets are in flight: one with the
\* worker, one in the queue, one with the blocked reader.
C16_Witness ==
    /\ sftpServerWorkerCount = 1
    /\ InFlight = 2 * sftpServerWorkerCount + 1
    /\ pcServe = "enqueue" /\ Len(pktChan) = sftpServerWorkerCount

\* C17 as claimed: when Serve has returned after a Transport read failure, the
\* Transport has been closed.
C17_ReadFailureClosesConn ==
    (pcServe = "returned" /\ err = "EIO") => connClosed

\* C17 as amended: the Transport is closed only in the step of a worker whose
\* reply write failed; no step of Serve closes it, so after a read failure
\* with no write failure it is still open when Serve returns.
C17_OnlyFailedWorkerCloses ==
    [][connClosed' # connClosed
       => /\ pcServe' = pcServe
          /\ \E w \in Workers : wpc[w] = "failed" /\ wpc'[w] = "done"]_vars

\* C17 witness: Serve has returned the read failure of a session that wrote
\* replies, and the Transport is open.
C17_Witness ==
    /\ pcServe = "returned" /\ err = "EIO" /\ ~connClosed
    /\ BagCardinality(sent) >= 1

\* C18: an open-like packet goes from the switch straight to writing its
\* handle acknowledgement, and the worker writes it without having called
\* handleRequest; a session-init packet goes straight to writing the version
\* reply, with the Registry neither looked up nor changed.
C18_LifecycleRepliesDirect ==
    [][\A w \in Workers :
         /\ (Leaves(w, "switch") /\ wpkt[w].kind \in OpenLike)
            => /\ wpc'[w] = "send"
               /\ rpkt'[w] = sshFxpHandlePacket(wpkt[w].id, handle'[w])
               /\ ~invoked'[w] /\ request'[w] = NoReq
         /\ (Leaves(w, "switch") /\ wpkt[w].kind = "init")
            => /\ wpc'[w] = "send"
               /\ rpkt'[w] = sshFxVersionPacket
               /\ UNCHANGED <<openRequests, requests, closed, nreg>>
               /\ ~invoked'[w] /\ request'[w] = NoReq /\ handle'[w] = ""
         /\ (Leaves(w, "send") /\ wpkt[w].kind \in OpenLike \cup {"init"})
            => /\ ~invoked[w] /\ request[w] = NoReq
               /\ rpkt[w].kind = (IF wpkt[w].kind = "init" THEN "version" ELSE "handle")
               /\ UNCHANGED <<openRequests, closed, nreg>>]_vars

\* C18 witness: a version reply has been written for a session-init packet
\* while a handle is open, and a handle acknowledgement has been written too.
C18_Witness ==
    /\ acks # {}
    /\ \E s \in BagToSet(sent) : s.id = 0
    /\ DOMAIN openRequests # {}
    /\ \A w \in Workers : ~invoked[w]

\* C19: the packet queue is closed by one step only, the reader's step after
\* its read loop has ended (nothing read is still waiting to be enqueued);
\* that step finds the queue open; once closed the queue stays closed, the
\* reader reads no more, and the queue only shrinks from its head.
C19_QueueClosedOnceByReader ==
    [][/\ chanClosed' # chanClosed
          => /\ ~chanClosed /\ pcServe = "close" /\ pcServe' = "wait"
             /\ pkt = NoPkt /\ (decodeFailed \/ err # NoErr)
             /\ UNCHANGED <<wpc, pktChan, nread>>
       /\ (pcServe = "close" /\ pcServe' # "close") => ~chanClosed
       /\ chanClosed
          => /\ chanClosed' /\ pcServe \in {"wait", "returned"}
             /\ UNCHANGED <<nread, pkt>>
             /\ \/ pktChan' = pktChan
                \/ pktChan # <<>> /\ pktChan' = Tail(pktChan)]_vars

\* C19 witness: the queue has been closed with packets still on it and a
\* worker in the middle of a packet.
C19_Witness ==
    /\ chanClosed /\ pcServe = "wait"
    /\ pktChan # <<>>
    /\ \E w \in Workers : Holding(w)

\* Goroutine w is inside registry method op: it holds the lock the method took.
InsideMethod(w, op) == lpc[w] \in {"body", "Unlock"} /\ lcall[w].op = op

\* C20: a worker inside lookup (getRequest) holds the Registry lock in shared
\* (reader) mode, with no writer; a worker inside register (nextRequest) or
\* release (closeRequest) holds it for writing and is alone in the Registry.
C20_LookupSharesLock ==
    \A w \in Workers :
        /\ InsideMethod(w, "getRequest")
           => /\ w \in openRequestLock.readers
              /\ openRequestLock.writer = 0
        /\ (InsideMethod(w, "nextRequest") \/ InsideMethod(w, "closeRequest"))
           => /\ openRequestLock.writer = w
              /\ \A v \in Workers \ {w} : lpc[v] \in {"out", "Lock"}

\* What the methods do instead: whichever method a goroutine is inside, it
\* holds the lock for writing and no other goroutine is inside any method.
C20_EveryMethodExclusive ==
    \A w \in Workers :
        lpc[w] \in {"body", "Unlock"}
        => /\ openRequestLock = [writer |-> w, readers |-> {}]
           /\ \A v \in Workers \ {w} : lpc[v] \in {"out", "Lock"}

\* Two workers have called lookup at once: one is inside, the other waits.
C20_LookupWaits ==
    \E w, v \in Workers :
        /\ w # v
        /\ InsideMethod(w, "getRequest")
        /\ lpc[v] = "Lock" /\ lcall[v].op = "getRequest"

====
